---- MODULE Spec2Model ----
(***************************************************************************)
(* A model of the UPS tracking bot of src/main.py: the poll pass           *)
(* (run_tracking), the reduction of a tracking payload to a (status,       *)
(* location) pair, the state store (last_status and ups_status.json), the  *)
(* Telegram delivery and the long-polling command loop.                    *)
(***************************************************************************)
EXTENDS Naturals, Sequences, FiniteSets, TLC

(***************************************************************************)
(* Bounds of the model.                                                    *)
(***************************************************************************)
\* passes that obtain a token and fetch, over all process runs
MaxPasses == 2
\* inbound Telegram updates that ever arrive
MaxUpdates == 2

(***************************************************************************)
(* JSON values, as Python sees them after response.json(): a tagged value  *)
(* is a dict ("obj", a function from keys to values), a list ("arr"), a    *)
(* string ("str") or None ("null").                                        *)
(***************************************************************************)
Obj(r) == [t |-> "obj", v |-> r]
Arr(s) == [t |-> "arr", v |-> s]
Str(s) == [t |-> "str", v |-> s]
Null == [t |-> "null", v |-> ""]
EmptyObj == Obj(<< >>)

\* the outcome of a Python expression: a value, or a raised exception with str(e)
Ok(x) == [exc |-> FALSE, val |-> x, msg |-> ""]
Raise(m) == [exc |-> TRUE, val |-> Null, msg |-> m]

\* the Python type name of a value, as exception messages print it
TypeName(x) ==
  CASE x.t = "obj" -> "dict"
    [] x.t = "arr" -> "list"
    [] x.t = "str" -> "str"
    [] OTHER -> "NoneType"

\* bool(x) of a JSON value
Truthy(x) ==
  CASE x.t = "obj" -> DOMAIN x.v # {}
    [] x.t = "arr" -> Len(x.v) > 0
    [] x.t = "str" -> x.v # ""
    [] OTHER -> FALSE

\* x[k] for a string key k
Subscript(x, k) ==
  CASE x.t = "obj" -> IF k \in DOMAIN x.v THEN Ok(x.v[k]) ELSE Raise("'" \o k \o "'")
    [] x.t = "arr" -> Raise("list indices must be integers or slices, not str")
    [] x.t = "str" -> Raise("string indices must be integers, not 'str'")
    [] OTHER -> Raise("'NoneType' object is not subscriptable")

\* x[0]: the first element of a list, the first character of a string
Index0(x) ==
  CASE x.t = "arr" -> IF Len(x.v) > 0 THEN Ok(x.v[1]) ELSE Raise("list index out of range")
    [] x.t = "obj" -> Raise("0")
    [] x.t = "str" -> IF x.v # "" THEN Ok(Str(SubSeq(x.v, 1, 1)))
                      ELSE Raise("string index out of range")
    [] OTHER -> Raise("'NoneType' object is not subscriptable")

\* one subscript of a chain x[a][b]...: "[0]" stands for the index 0
Step(x, k) == IF k = "[0]" THEN Index0(x) ELSE Subscript(x, k)

\* a chain of subscripts, left to right, stopping at the first exception
RECURSIVE Walk(_, _)
Walk(x, path) ==
  IF path = << >> THEN Ok(x)
  ELSE LET r == Step(x, Head(path))
       IN IF r.exc THEN r ELSE Walk(r.val, Tail(path))

\* x.get(k, d)
DictGet(x, k, d) ==
  IF x.t = "obj"
  THEN Ok(IF k \in DOMAIN x.v THEN x.v[k] ELSE d)
  ELSE Raise("'" \o TypeName(x) \o "' object has no attribute 'get'")

\* x.get(a, {}).get(b, d)
DictGet2(x, a, b, d) ==
  LET r == DictGet(x, a, EmptyObj)
  IN IF r.exc THEN r ELSE DictGet(r.val, b, d)

\* the strings of a list of values joined with ", ": every value is a string
RECURSIVE JoinText(_)
JoinText(parts) ==
  IF Len(parts) = 0 THEN ""
  ELSE IF Len(parts) = 1 THEN parts[1].v
  ELSE parts[1].v \o ", " \o JoinText(Tail(parts))
\* the position, from 0, of the first value of a list that is not a string: the length
\* of the list when all are strings
RECURSIVE FirstNonString(_)
FirstNonString(parts) ==
  IF parts = << >> \/ Head(parts).t # "str" THEN 0 ELSE 1 + FirstNonString(Tail(parts))
\* ", ".join(parts) of a list of values: a TypeError when one of them is not a string
Join(parts) ==
  IF FirstNonString(parts) = Len(parts) THEN Ok(Str(JoinText(parts)))
  ELSE Raise("sequence item " \o ToString(FirstNonString(parts))
               \o ": expected str instance, "
               \o TypeName(parts[FirstNonString(parts) + 1]) \o " found")

NoLocation == "No location found"
NoTrackingInfo == "No tracking info"
AddressKeys == <<"city", "stateProvince", "country">>

\* the loop over city, stateProvince, country of an address dict: the truthy fields, in order
RECURSIVE AddrParts(_, _)
AddrParts(addr, keys) ==
  IF keys = << >> THEN << >>
  ELSE LET k == Head(keys)
           here == IF addr.t = "obj" /\ k \in DOMAIN addr.v /\ Truthy(addr.v[k])
                   THEN <<addr.v[k]>> ELSE << >>
       IN here \o AddrParts(addr, Tail(keys))

\* (mutant) an extractor that looks at the code before the facility description
FieldPartSwapped(al, k) ==
  LET o == IF k = "code" THEN "locationTypeDescription" ELSE "code"
  IN IF o \in DOMAIN al.v /\ Truthy(al.v[o]) THEN <<al.v[o]>> ELSE << >>
\* one optional single field of activityLocation (locationTypeDescription, code)
FieldPart(al, k) ==
  IF k \in DOMAIN al.v /\ Truthy(al.v[k]) THEN <<al.v[k]>> ELSE << >>

\* the address parts of shipment.get(who, {}).get("address", {})
ShipParts(shipment, who) ==
  LET a == DictGet2(shipment, who, "address", EmptyObj)
  IN IF a.exc THEN a
     ELSE IF a.val.t # "obj" THEN Raise("'" \o TypeName(a.val) \o "' object has no attribute 'get'")
     ELSE Ok(Arr(AddrParts(a.val, AddressKeys)))

\* extract_location(activity, shipment): the joined location, or the exception it raises
extract_location(activity, shipment) ==
  LET al == DictGet(activity, "activityLocation", EmptyObj)
  IN IF al.exc THEN al
     ELSE LET addr == DictGet(al.val, "address", EmptyObj)
          IN IF addr.exc THEN addr
             ELSE IF addr.val.t # "obj"
                  THEN Raise("'" \o TypeName(addr.val) \o "' object has no attribute 'get'")
             ELSE
               LET p1 == AddrParts(addr.val, AddressKeys)
                   p2 == IF p1 = << >> THEN FieldPart(al.val, "locationTypeDescription") ELSE p1
                   p3 == IF p2 = << >> THEN FieldPart(al.val, "code") ELSE p2
                   from == IF p3 = << >> /\ Truthy(shipment)
                           THEN ShipParts(shipment, "shipFrom") ELSE Ok(Arr(p3))
               IN IF from.exc THEN from
                  ELSE LET p4 == from.val.v
                           to == IF p4 = << >> /\ Truthy(shipment)
                                 THEN ShipParts(shipment, "shipTo") ELSE Ok(Arr(p4))
                       IN IF to.exc THEN to
                          ELSE LET p5 == to.val.v
                               IN Join(IF p5 = << >> THEN <<Str(NoLocation)>> ELSE p5)

\* the for loop over activities[1:]: the first location that is not the sentinel
RECURSIVE OlderLocation(_, _)
OlderLocation(acts, shipment) ==
  IF acts = << >> THEN Ok(Str(NoLocation))
  ELSE LET r == extract_location(Head(acts), shipment)
       IN IF r.exc THEN r
          ELSE IF r.val.v # NoLocation THEN r
          ELSE OlderLocation(Tail(acts), shipment)

\* the result pair of get_tracking_status: the status is a value of any type, as the
\* document carries it (a string in every well-formed one); the location is the text
\* of the string the extractor joined
Snapshot(s, l) == [status |-> s, location |-> l]
\* (mutant) the except branch returning the bare cause
ParseErrorBare(m) == Snapshot(Str(m), NoLocation)
\* the except branch: f"Error parsing: {e}", "No location found"
ParseError(m) == Snapshot(Str("Error parsing: " \o m), NoLocation)

\* (mutant) a reduction that never looks at the older events
ResolveLocationLatestOnly(first, activities, shipment_info) == first
\* location = extract_location(latest, shipment_info), and the loop over activities[1:]
\* when that is the sentinel
ResolveLocation(first, activities, shipment_info) ==
  IF first.exc THEN first
  ELSE IF first.val.v = NoLocation /\ activities.t = "arr" /\ Len(activities.v) > 1
       THEN OlderLocation(Tail(activities.v), shipment_info)
       ELSE first

\* return status, location: or the except branch when the location raised
ReturnPair(status, location) ==
  IF location.exc THEN ParseError(location.msg)
  ELSE Snapshot(status, location.val.v)

\* status = latest["status"]["description"], then the location
ReduceStatus(status, latest, activities, shipment_info) ==
  IF status.exc THEN ParseError(status.msg)
  ELSE ReturnPair(status.val,
                  ResolveLocation(extract_location(latest, shipment_info),
                                  activities, shipment_info))

\* latest = activities[0]
ReduceLatest(latest, activities, shipment_info) ==
  IF latest.exc THEN ParseError(latest.msg)
  ELSE ReduceStatus(Walk(latest.val, <<"status", "description">>),
                    latest.val, activities, shipment_info)

\* activities = shipment_info["package"][0]["activity"]
ReduceActivities(activities, shipment_info) ==
  IF activities.exc THEN ParseError(activities.msg)
  ELSE ReduceLatest(Index0(activities.val), activities.val, shipment_info)

\* shipment_info = data["trackResponse"]["shipment"][0]
ReduceShipment(shipment_info) ==
  IF shipment_info.exc THEN ParseError(shipment_info.msg)
  ELSE ReduceActivities(Walk(shipment_info.val, <<"package", "[0]", "activity">>),
                        shipment_info.val)

\* the try block of get_tracking_status: any exception becomes the status
ReducePayload(data) ==
  ReduceShipment(Walk(data, <<"trackResponse", "shipment", "[0]">>))

\* whether the text sub occurs in the text s
RECURSIVE Occurs(_, _)
Occurs(sub, s) ==
  IF Len(s) < Len(sub) THEN FALSE
  ELSE IF SubSeq(s, 1, Len(sub)) = sub THEN TRUE
  ELSE Occurs(sub, Tail(s))
\* k in x: a key of a dict, an element of a list, a part of a string; None has no "in"
Contains(x, k) ==
  CASE x.t = "obj" -> Ok(k \in DOMAIN x.v)
    [] x.t = "arr" -> Ok(\E i \in 1..Len(x.v) : x.v[i] = Str(k))
    [] x.t = "str" -> Ok(Occurs(k, x.v))
    [] OTHER -> Raise("argument of type '" \o TypeName(x) \o "' is not iterable")
\* the test of line 62 and what follows it: the test is outside the try block, so its
\* exception leaves the function
Guarded(has, data) ==
  IF has.exc THEN Raise(has.msg)
  ELSE IF ~has.val THEN Ok(Snapshot(Str(NoTrackingInfo), NoLocation))
  ELSE Ok(ReducePayload(data))
\* get_tracking_status after a successful HTTP response carrying the JSON document
\* data: the pair it returns, or the exception it lets out
get_tracking_status(data) == Guarded(Contains(data, "trackResponse"), data)

\* ---- tracking payloads the provider may return ----
Address(c, s, k) == Obj([city |-> Str(c), stateProvince |-> Str(s), country |-> Str(k)])
Activity(desc, loc) == Obj([status |-> Obj([description |-> Str(desc)]), activityLocation |-> loc])
Shipment(fields) == Obj([trackResponse |-> Obj([shipment |-> Arr(<<Obj(fields)>>)])])
Package(acts) == Arr(<<Obj([activity |-> Arr(acts)])>>)
Tracked(acts) == Shipment([package |-> Package(acts)])

Payloads == <<
  \* 1: no trackResponse wrapper
  Obj([response |-> Obj(<< >>)]),
  \* 2: latest event with a direct address
  Tracked(<<Activity("In Transit", Obj([address |-> Address("Toronto", "ON", "CA")]))>>),
  \* 3: same status, location from the facility description
  Tracked(<<Activity("In Transit", Obj([locationTypeDescription |-> Str("Hub")]))>>),
  \* 4: latest event without location, older event with a partial address
  Tracked(<<Activity("Delivered", EmptyObj),
            Activity("In Transit", Obj([address |-> Obj([city |-> Str("Toronto"), country |-> Str("CA")])]))>>),
  \* 5: an empty status description
  Tracked(<<Activity("", EmptyObj)>>),
  \* 6: wrapper without the shipment key
  Obj([trackResponse |-> EmptyObj]),
  \* 7: empty event list
  Tracked(<< >>),
  \* 8: wrong shape: shipment is a dict, not a list
  Obj([trackResponse |-> Obj([shipment |-> EmptyObj])]),
  \* 9: the status of 2 in another capitalisation
  Tracked(<<Activity("IN TRANSIT", Obj([address |-> Address("Toronto", "ON", "CA")]))>>),
  \* 10: wrong type: the city of the latest event is a list
  Tracked(<<Activity("In Transit",
                     Obj([address |-> Obj([city |-> Arr(<<Str("Toronto")>>)])]))>>),
  \* 11: the status description of the latest event is null
  Tracked(<<Obj([status |-> Obj([description |-> Null]),
                 activityLocation |-> Obj([address |-> Address("Toronto", "ON", "CA")])])>>)
>>

(***************************************************************************)
(* Configuration and environment.                                          *)
(***************************************************************************)
\* os.getenv("UPS_TRACKINGS").split(",")
TRACKING_NUMBERS == <<"1Z001", "1Z002">>
\* os.getenv("UPS_NICKNAMES", "").split(","): a nickname for the first shipment only
TRACKING_NAMES == <<"Laptop">>
\* an identifier of an earlier configuration, no longer tracked
StaleId == "1Z999"

\* ups_status.json: absent, or holding a mapping
NoFile == [exists |-> FALSE, data |-> << >>]
StaleFile == [exists |-> TRUE,
              data |-> (StaleId :> [status |-> Str("Delivered"), location |-> "Hub",
                                    timestamp |-> 0])]
InitialFiles == {NoFile, StaleFile}

\* the outcomes of requests.post in send_telegram: 200, another status, an exception
DeliveryOutcomes == {"ok", "rejected", "exception"}

\* os.getenv("TELEGRAM_CHAT_ID")
TELEGRAM_CHAT_ID == "owner"
\* the chats an inbound update can come from: the configured one, and another
Chats == {TELEGRAM_CHAT_ID, "stranger"}

\* inbound Telegram updates: a text message, or a callback of a button press, each with
\* the chat it came from
UpdateShapes ==
  { [kind |-> "message", text |-> "/update", chat |-> c] : c \in Chats }
    \cup { [kind |-> "callback_query", text |-> "update_now", chat |-> c] : c \in Chats }
    \cup { [kind |-> "message", text |-> "hello", chat |-> TELEGRAM_CHAT_ID],
           [kind |-> "callback_query", text |-> "other", chat |-> "stranger"] }

VARIABLES
  pc,             \* where the process is: "dead" when it is not running
  caller,         \* who called run_tracking: "main" or "handler"
  last_status,    \* the in-memory mapping of the state store
  file,           \* ups_status.json
  idx,            \* the position of run_tracking's loop in TRACKING_NUMBERS
  now,            \* the timestamp of the pass in progress: a reading of the wall clock
  passes,         \* passes that fetched so far: the clock of the timestamps
  saved,          \* writes of the file by the pass in progress
  inbox,          \* every update the Telegram server has received, by update_id
  confirmed,      \* the server's confirmed offset: updates below it are gone
  batch,          \* the updates of the last getUpdates reply still to loop over
  last_update_id, \* the cursor of start_polling (0: None)
  current,        \* the update in the hands of the for loop (id 0: none)
  lastObs,        \* per shipment: the last status fetched, the pass, and whether notified
  notified,       \* identifiers notified since the store was last empty
  returned,       \* update ids whose handle_message call has returned
  interrupted,    \* update ids whose handle_message call was cut short by an exception
  received,       \* update ids the get_updates calls of this process run returned, in order
  handed,         \* update ids this process run passed to handle_message, in order
  probe,          \* one call of the payload reduction: its arguments and its result
  ev              \* what the last step did

vars == <<pc, caller, last_status, file, idx, now, passes, saved, inbox,
          confirmed, batch, last_update_id, current, lastObs, notified, returned, interrupted, received, handed, probe, ev>>

Ids == {TRACKING_NUMBERS[i] : i \in 1..Len(TRACKING_NUMBERS)}
NoUpdate == [id |-> 0, kind |-> "none", text |-> "", chat |-> ""]
NoObs == [status |-> Null, pass |-> 0, notified |-> FALSE]
NoPrevious == [has |-> FALSE, status |-> Null]
Event(op) == [op |-> op, id |-> "", http |-> "none", payload |-> 0, status |-> Null,
              location |-> "", prev |-> NoPrevious, sends |-> 0, delivery |-> "none",
              msgs |-> << >>, table |-> ""]

\* json.load of the file at import, {} when there is none
LoadState(f) == IF f.exists THEN f.data ELSE << >>
\* (mutant) a save that merges into the file instead of overwriting it
SaveMerged(f, mapping) == [exists |-> TRUE, data |-> f.data @@ mapping]
\* json.dump of the whole mapping over the file
SaveState(f, mapping) == [exists |-> TRUE, data |-> mapping]
\* the mapping the state store holds: in memory while the process runs, the file otherwise
Store == IF pc = "dead" THEN LoadState(file) ELSE last_status

\* last_status.get(tracking, {}).get("status"): None, and has FALSE, without a record
PreviousStatus(mapping, tracking) ==
  IF tracking \in DOMAIN mapping
  THEN [has |-> TRUE, status |-> mapping[tracking].status]
  ELSE NoPrevious
\* (mutant) a comparison that ignores capitalisation
Normalized(status) == IF status = Str("IN TRANSIT") THEN Str("In Transit") ELSE status
ShouldNotifyNormalized(status, prev) ==
  Truthy(status) /\ Normalized(prev.status) # Normalized(status)
\* (mutant) a comparison that takes a missing record for an unchanged one
ShouldNotifyKnownOnly(status, prev) == Truthy(status) /\ prev.has /\ prev.status # status
\* status and previous_status != status: the truthiness of the status, and the
\* inequality of two values of any type
ShouldNotify(status, prev) == Truthy(status) /\ prev.status # status
\* (mutant) an assignment that replaces the whole mapping by the one record
PutRecordAlone(mapping, tracking, snap, stamp) ==
  tracking :> [status |-> snap.status, location |-> snap.location, timestamp |-> stamp]
\* last_status[tracking] = {...}
PutRecord(mapping, tracking, snap, stamp) ==
  (tracking :> [status |-> snap.status, location |-> snap.location, timestamp |-> stamp])
    @@ mapping
\* the nickname of the shipment at position i (from 1) of TRACKING_NUMBERS
Nickname(i) ==
  IF i <= Len(TRACKING_NAMES) /\ TRACKING_NAMES[i] # "" THEN TRACKING_NAMES[i]
  ELSE TRACKING_NUMBERS[i]
\* c * n
RECURSIVE Repeat(_, _)
Repeat(c, n) == IF n = 0 THEN "" ELSE c \o Repeat(c, n - 1)
\* f"{s:<w}": s, filled with spaces on the right up to the width w
Pad(s, w) == IF Len(s) >= w THEN s ELSE s \o Repeat(" ", w - Len(s))
\* "\n".join(lines)
RECURSIVE JoinLines(_)
JoinLines(lines) ==
  IF Len(lines) = 0 THEN ""
  ELSE IF Len(lines) = 1 THEN lines[1]
  ELSE lines[1] \o "\n" \o JoinLines(Tail(lines))
\* the placeholder of a missing location or timestamp (one character, U+2014 in the source)
Dash == "-"
\* the first entry of table_lines (that of the source begins with a pictograph)
Title == "UPS Tracking Status Table\n"
\* one fixed-width line of the table
RenderRow(cells) ==
  Pad(cells[1], 20) \o " | " \o Pad(cells[2], 25) \o " | " \o Pad(cells[3], 25)
    \o " | " \o cells[4]
Header == RenderRow(<<"Nickname", "Status", "Location", "Updated">>)
Rule == Repeat("-", 80)
\* record.get("status", "No info") for the shipment at position i
RowStatus(i, mapping) ==
  IF TRACKING_NUMBERS[i] \in DOMAIN mapping THEN mapping[TRACKING_NUMBERS[i]].status
  ELSE Str("No info")
\* f"{status:<25}" raises TypeError for a status that is not a string
FormatRaises(x) == x.t # "str"
\* the positions whose row cannot be formatted
BadRows(mapping) == {i \in 1..Len(TRACKING_NUMBERS) : FormatRaises(RowStatus(i, mapping))}
\* str(e) of the TypeError of the first row that cannot be formatted
FormatError(mapping) ==
  LET i == CHOOSE k \in BadRows(mapping) : \A j \in BadRows(mapping) : k <= j
  IN "unsupported format string passed to " \o TypeName(RowStatus(i, mapping))
       \o ".__format__"
\* nickname, and record.get(...) of status, location and timestamp with their defaults,
\* for the shipment at position i
TableCells(i, mapping) ==
  IF TRACKING_NUMBERS[i] \in DOMAIN mapping
  THEN <<Nickname(i), RowStatus(i, mapping).v,
         mapping[TRACKING_NUMBERS[i]].location,
         ToString(mapping[TRACKING_NUMBERS[i]].timestamp)>>
  ELSE <<Nickname(i), RowStatus(i, mapping).v, Dash, Dash>>
\* (mutant) a table that leaves out the shipments without record
TableRowsRecordedOnly(mapping) ==
  LET all == [i \in 1..Len(TRACKING_NUMBERS) |-> i]
      have == SelectSeq(all, LAMBDA i : TRACKING_NUMBERS[i] \in DOMAIN mapping)
  IN [k \in 1..Len(have) |-> RenderRow(TableCells(have[k], mapping))]
\* the loop of format_status_table over enumerate(TRACKING_NUMBERS)
TableRows(mapping) ==
  [i \in 1..Len(TRACKING_NUMBERS) |-> RenderRow(TableCells(i, mapping))]
\* format_status_table(), reading the mapping last_status: the table, or the exception
\* of a row that cannot be formatted
format_status_table(mapping) ==
  IF BadRows(mapping) # {} THEN Raise(FormatError(mapping))
  ELSE Ok(JoinLines(<<Title, Header, Rule>> \o TableRows(mapping) \o <<Rule>>))

\* the payload of send_telegram: what the message is, and the chat it is addressed to
Message(kind) == [kind |-> kind, chat |-> TELEGRAM_CHAT_ID]
\* (mutant) a button offered in the chat the update came from
send_update_button_reply(chat_id) == [kind |-> "button", chat |-> chat_id]
\* send_update_button(chat_id): the parameter is not used
send_update_button(chat_id) == Message("button")
\* (mutant) a send_telegram that tries again after a failure
SendAttemptsRetry(outcome) == IF outcome = "ok" THEN 1 ELSE 2
\* requests.post calls one send_telegram call makes
SendAttempts(outcome) == 1
\* (mutant) a send_telegram that lets a failed delivery out as an exception
SendRaisesOnFailure(outcome) == outcome # "ok"
\* whether send_telegram lets the failure out to its caller
SendRaises(outcome) == FALSE
\* (mutant) a token request whose failure is ignored
AuthAbortsNever(ok) == FALSE
\* response.raise_for_status() of get_access_token raises when the request failed, and
\* run_tracking lets the exception out
AuthAborts(ok) == ~ok
\* (mutant) a cursor that stays on the update just taken
NextCursorStuck(update) == update.id
\* (mutant) a cursor that jumps over the next update
NextCursorSkipping(update) == update.id + 2
\* update["update_id"] + 1
NextCursor(update) == update.id + 1
\* (mutant) a handler that takes every button press for the trigger
IsTriggerAnyCallback(update) ==
  \/ update.kind = "message" /\ update.text = "/update"
  \/ update.kind = "callback_query"
\* the text tests of handle_message
IsTrigger(update) ==
  \/ update.kind = "message" /\ update.text = "/update"
  \/ update.kind = "callback_query" /\ update.text = "update_now"
\* getUpdates on the server: what an offset confirms, and the updates it returns
ServerConfirm(offset) == IF offset > 0 /\ offset - 1 > confirmed THEN offset - 1 ELSE confirmed
ServerReply(box, offset) ==
  LET from == IF offset > ServerConfirm(offset) THEN offset ELSE ServerConfirm(offset) + 1
  IN SubSeq(box, from, Len(box))

\* datetime.now(toronto_tz).strftime(...): the readings of the wall clock, to the
\* second. Two passes within one second read the same value, and the clock can be set
\* back between two passes, so a reading says nothing about the readings before it.
Timestamps == {1, 2}

\* an uncaught exception ends the process: its memory is gone, and the state store
\* is what the file holds
Die ==
  /\ pc' = "dead"
  /\ last_status' = << >>
  /\ idx' = 0 /\ now' = 0 /\ caller' = "main"
  /\ batch' = << >> /\ last_update_id' = 0 /\ current' = NoUpdate
  /\ interrupted' = IF current.id > 0 THEN interrupted \cup {current.id} ELSE interrupted
  /\ notified' = IF DOMAIN LoadState(file) = {} THEN {} ELSE notified
  /\ received' = << >> /\ handed' = << >>

\* before the first start: the file is one of files, nothing has run
InitWith(files) ==
  /\ pc = "dead" /\ caller = "main"
  /\ last_status = << >>
  /\ file \in files
  /\ idx = 0 /\ now = 0 /\ passes = 0 /\ saved = 0
  /\ inbox = << >> /\ confirmed = 0 /\ batch = << >>
  /\ last_update_id = 0 /\ current = NoUpdate
  /\ lastObs = [t \in Ids |-> NoObs]
  /\ notified = DOMAIN LoadState(file)
  /\ returned = {} /\ interrupted = {}
  /\ received = << >> /\ handed = << >>
  /\ ev = Event("init")

\* the module is imported: the file is loaded, and main calls run_tracking
Start ==
  /\ pc = "dead"
  /\ last_status' = LoadState(file)
  /\ pc' = "token" /\ caller' = "main"
  /\ ev' = Event("start")
  /\ UNCHANGED <<probe, file, idx, now, passes, saved, inbox, confirmed, batch,
                 last_update_id, current, lastObs, notified, returned, interrupted, received, handed>>

\* run_tracking up to its loop: the token request, then the timestamp, which is the
\* reading of the wall clock at that moment
GetAccessToken ==
  /\ pc = "token"
  /\ \E ok \in BOOLEAN :
       /\ IF AuthAborts(ok)
          THEN /\ Die
               /\ passes' = passes
          ELSE /\ passes < MaxPasses
               /\ passes' = passes + 1
               /\ pc' = "loop" /\ idx' = 1 /\ now' \in Timestamps
               /\ UNCHANGED <<caller, last_status, batch, last_update_id, current,
                              notified, interrupted, received, handed>>
       /\ ev' = [Event("token") EXCEPT !.http = IF ok THEN "ok" ELSE "error"]
  /\ saved' = 0
  /\ UNCHANGED <<probe, file, inbox, confirmed, lastObs, returned>>

\* one iteration of run_tracking's loop whose fetch raises: the pass and the process end
FetchFails ==
  /\ pc = "loop" /\ idx <= Len(TRACKING_NUMBERS)
  /\ Die
  /\ ev' = [Event("evaluate") EXCEPT !.id = TRACKING_NUMBERS[idx], !.http = "error"]
  /\ UNCHANGED <<probe, file, passes, saved, inbox, confirmed, lastObs, returned>>

\* the rest of an iteration once the fetch returned snap and the comparison gave notify:
\* the message is sent (its delivery ends as d) and the record written, or nothing is done
Decide(tracking, p, d, snap, prev, notify) ==
  /\ (~notify => d = "ok")
  /\ IF notify /\ SendRaises(d)
     THEN Die
     ELSE /\ last_status' = IF notify THEN PutRecord(last_status, tracking, snap, now)
                            ELSE last_status
          /\ idx' = idx + 1
          /\ notified' = IF notify THEN notified \cup {tracking} ELSE notified
          /\ UNCHANGED <<pc, caller, now, batch, last_update_id, current, interrupted, received, handed>>
  /\ lastObs' = [lastObs EXCEPT ![tracking] =
                   [status |-> snap.status, pass |-> passes,
                    notified |-> \/ notify
                                 \/ /\ lastObs[tracking].pass > 0
                                    /\ lastObs[tracking].status = snap.status
                                    /\ lastObs[tracking].notified]]
  /\ ev' = [op |-> "evaluate", id |-> tracking, http |-> "ok", payload |-> p,
            status |-> snap.status, location |-> snap.location, prev |-> prev,
            sends |-> IF notify THEN SendAttempts(d) ELSE 0,
            delivery |-> IF notify THEN d ELSE "none",
            msgs |-> IF notify THEN <<Message("change")>> ELSE << >>,
            table |-> ""]

\* the comparison of an iteration: previous_status, and the test that decides
Compare(tracking, p, d, snap, prev) ==
  Decide(tracking, p, d, snap, prev, ShouldNotify(snap.status, prev))

\* status, location = get_tracking_status(...): an exception the call lets out ends the
\* pass and the process, a pair goes on to the comparison
Fetched(tracking, p, d, result, prev) ==
  IF result.exc
  THEN /\ Die
       /\ lastObs' = lastObs
       /\ ev' = [Event("evaluate") EXCEPT !.id = tracking, !.http = "error", !.payload = p]
  ELSE Compare(tracking, p, d, result.val, prev)

\* one iteration of run_tracking's loop: fetch, compare, notify and record; the provider
\* answers the fetch of a shipment with one of the payloads answers[shipment]
Evaluate(answers) ==
  /\ pc = "loop" /\ idx <= Len(TRACKING_NUMBERS)
  /\ \E p \in answers[TRACKING_NUMBERS[idx]], d \in DeliveryOutcomes :
       Fetched(TRACKING_NUMBERS[idx], p, d, get_tracking_status(Payloads[p]),
               PreviousStatus(last_status, TRACKING_NUMBERS[idx]))
  /\ UNCHANGED <<probe, file, passes, saved, inbox, confirmed, returned>>

\* the end of run_tracking: the whole mapping is written, and the call returns
Persist ==
  /\ pc = "loop" /\ idx > Len(TRACKING_NUMBERS)
  /\ file' = SaveState(file, last_status)
  /\ saved' = saved + 1
  /\ pc' = IF caller = "main" THEN "button" ELSE "finish"
  /\ ev' = Event("save")
  /\ UNCHANGED <<probe, caller, last_status, idx, now, passes, inbox, confirmed, batch,
                 last_update_id, current, lastObs, notified, returned, interrupted, received, handed>>

\* main: send_update_button after the first pass, then start_polling
SendInitialButton ==
  /\ pc = "button"
  /\ \E d \in DeliveryOutcomes :
       /\ IF SendRaises(d) THEN Die
          ELSE /\ pc' = "poll"
               /\ UNCHANGED <<caller, last_status, idx, now, batch, last_update_id, current,
                              notified, interrupted, received, handed>>
       /\ ev' = [Event("button") EXCEPT !.sends = SendAttempts(d), !.delivery = d,
                                        !.msgs = <<send_update_button(TELEGRAM_CHAT_ID)>>]
  /\ UNCHANGED <<probe, file, passes, saved, inbox, confirmed, lastObs, returned>>

\* start_polling: get_updates(last_update_id) raises and ends the process
PollFails ==
  /\ pc = "poll"
  /\ Die
  /\ ev' = [Event("poll") EXCEPT !.http = "error"]
  /\ UNCHANGED <<probe, file, passes, saved, inbox, confirmed, lastObs, returned>>

\* start_polling: get_updates(last_update_id) returns the server's reply; updates that
\* arrived since the last call (each of one of shapes) are in the server's inbox by then
GetUpdates(shapes) ==
  /\ pc = "poll"
  /\ \E n \in 0..(MaxUpdates - Len(inbox)) :
       \E news \in [1..n -> shapes] :
         LET box == inbox \o [i \in 1..n |->
                        [id |-> Len(inbox) + i, kind |-> news[i].kind, text |-> news[i].text,
                         chat |-> news[i].chat]]
             reply == ServerReply(box, last_update_id)
         IN /\ inbox' = box
            /\ confirmed' = ServerConfirm(last_update_id)
            /\ batch' = reply
            /\ received' = received \o [k \in 1..Len(reply) |-> reply[k].id]
            /\ pc' = IF reply = << >> THEN "poll" ELSE "advance"
  /\ ev' = [Event("poll") EXCEPT !.http = "ok"]
  /\ UNCHANGED <<probe, caller, last_status, file, idx, now, passes, saved,
                 last_update_id, current, lastObs, notified, returned, interrupted, handed>>

\* the for loop of start_polling takes the next update and moves the cursor past it
Advance ==
  /\ pc = "advance" /\ batch # << >>
  /\ current' = Head(batch)
  /\ batch' = Tail(batch)
  /\ last_update_id' = NextCursor(Head(batch))
  /\ pc' = "handle"
  /\ ev' = [Event("advance") EXCEPT !.payload = Head(batch).id]
  /\ UNCHANGED <<probe, caller, last_status, file, idx, now, passes, saved, inbox,
                 confirmed, lastObs, notified, returned, interrupted, received, handed>>

\* where the for loop of start_polling goes after an update: the next one, or sleep and poll
AfterUpdate == IF batch = << >> THEN "poll" ELSE "advance"

\* the delivery outcome an event reports for two sends: the first failure, if any
Worst(d1, d2) == IF d1 # "ok" THEN d1 ELSE d2

\* handle_message is called: a trigger announces the start and calls run_tracking,
\* anything else returns at once
HandleMessage ==
  /\ pc = "handle"
  /\ IF IsTrigger(current)
     THEN \E d \in DeliveryOutcomes :
            /\ IF SendRaises(d) THEN Die
               ELSE /\ pc' = "token" /\ caller' = "handler"
                    /\ handed' = Append(handed, current.id)
                    /\ UNCHANGED <<last_status, idx, now, batch, last_update_id, current,
                                   notified, interrupted, received>>
            /\ ev' = [Event("handle") EXCEPT !.payload = current.id,
                                             !.sends = SendAttempts(d), !.delivery = d,
                                             !.msgs = <<Message("announce")>>]
            /\ UNCHANGED returned
     ELSE /\ pc' = AfterUpdate
          /\ returned' = returned \cup {current.id}
          /\ current' = NoUpdate
          /\ handed' = Append(handed, current.id)
          /\ ev' = [Event("handle") EXCEPT !.payload = current.id]
          /\ UNCHANGED <<caller, last_status, idx, now, batch, last_update_id,
                         notified, interrupted, received>>
  /\ UNCHANGED <<probe, file, passes, saved, inbox, confirmed, lastObs>>

\* handle_message after its pass: the table is sent, the button offered again, and it returns
\* the rest of handle_message once format_status_table ended as table: its exception
\* ends the process before anything is sent; otherwise the table and the button are
\* sent (their deliveries end as d1 and d2) and the handler returns
Reported(table, d1, d2) ==
  IF table.exc
  THEN /\ d1 = "ok" /\ d2 = "ok"
       /\ Die /\ UNCHANGED returned
       /\ ev' = [Event("format") EXCEPT !.payload = current.id, !.http = "error"]
  ELSE /\ IF SendRaises(d1) \/ SendRaises(d2) THEN Die /\ UNCHANGED returned
          ELSE /\ pc' = AfterUpdate
               /\ returned' = returned \cup {current.id}
               /\ caller' = "main"
               /\ current' = NoUpdate
               /\ UNCHANGED <<last_status, idx, now, batch, last_update_id,
                              notified, interrupted, received, handed>>
       /\ ev' = [Event("finish") EXCEPT !.payload = current.id,
                                        !.sends = SendAttempts(d1) + SendAttempts(d2),
                                        !.delivery = Worst(d1, d2),
                                        !.msgs = <<Message("table"),
                                                   send_update_button(current.chat)>>,
                                        !.table = table.val]

FinishHandler ==
  /\ pc = "finish"
  /\ \E d1 \in DeliveryOutcomes, d2 \in DeliveryOutcomes :
       Reported(format_status_table(last_status), d1, d2)
  /\ UNCHANGED <<probe, file, passes, saved, inbox, confirmed, lastObs>>

\* no call of the payload reduction is followed
NoProbe == [fn |-> "none"]

(***************************************************************************)
PassAnswers == ("1Z001" :> {2, 3, 5, 7, 9, 11}) @@ ("1Z002" :> {2, 5, 6, 7, 8, 10})
PassUpdates ==
  {u \in UpdateShapes : u.kind = "message" /\ u.text = "/update" /\ u.chat = TELEGRAM_CHAT_ID}
Init == InitWith(InitialFiles) /\ probe = NoProbe

Next ==
  \/ Start
  \/ GetAccessToken
  \/ FetchFails
  \/ Evaluate(PassAnswers)
  \/ Persist
  \/ SendInitialButton
  \/ PollFails
  \/ GetUpdates(PassUpdates)
  \/ Advance
  \/ HandleMessage
  \/ FinishHandler

Spec == Init /\ [][Next]_vars

(***************************************************************************)
(* The specification of the command loop: every kind of inbound update,    *)
(* and two provider answers (a status, an empty status).                   *)
(***************************************************************************)
PollAnswers == [t \in Ids |-> {2, 5}]
InitPoll == InitWith({NoFile}) /\ probe = NoProbe

NextPoll ==
  \/ Start
  \/ GetAccessToken
  \/ FetchFails
  \/ Evaluate(PollAnswers)
  \/ Persist
  \/ SendInitialButton
  \/ PollFails
  \/ GetUpdates(UpdateShapes)
  \/ Advance
  \/ HandleMessage
  \/ FinishHandler

SpecPoll == InitPoll /\ [][NextPoll]_vars

(***************************************************************************)
(* The specification of the payload reduction: extract_location and        *)
(* get_tracking_status applied to tracking events and documents drawn from *)
(* bounded sets.                                                           *)
(***************************************************************************)
\* the fields an address can carry: the city can be present and empty
AddressChoices ==
  { c @@ s @@ k :
      c \in {[city |-> Str("")], [city |-> Str("Toronto")]},
      s \in {<< >>, [stateProvince |-> Str("ON")]},
      k \in {<< >>, [country |-> Str("CA")]} }
\* the activityLocation of an event: an address, a facility description, a code
LocationChoices ==
  { [address |-> Obj(a)] @@ d @@ c :
      a \in AddressChoices,
      d \in {<< >>, [locationTypeDescription |-> Str("Hub")]},
      c \in {<< >>, [code |-> Str("YYZ")]} }
\* locations with a field that is not a string: a city that is a list, a second address
\* field that is a dict, a description that is a dict, and a code that is a list next
\* to an address
ListCity == Obj([address |-> Obj([city |-> Arr(<<Str("Toronto")>>)])])
MistypedLocations ==
  {ListCity,
   Obj([address |-> Obj([city |-> Str("Toronto"), country |-> Obj([code |-> Str("CA")])])]),
   Obj([locationTypeDescription |-> Obj([name |-> Str("Hub")])]),
   Obj([address |-> Obj([city |-> Str("Toronto")]), code |-> Arr(<<Str("YYZ")>>)])}
\* tracking events: without activityLocation, or with one of the locations
ActivityChoices ==
  {Obj([status |-> Obj([description |-> Str("In Transit")])])}
    \cup {Activity("In Transit", Obj(l)) : l \in LocationChoices}
    \cup {Activity("In Transit", l) : l \in MistypedLocations}
\* the origin and the destination of a shipment
Origin == [shipFrom |-> Obj([address |-> Address("Louisville", "KY", "US")])]
EmptyOrigin == [shipFrom |-> Obj([address |-> EmptyObj])]
Destination == [shipTo |-> Obj([address |-> Obj([city |-> Str("Ottawa"), country |-> Str("CA")])])]
\* the shipment argument of extract_location: None (the default), or a dict
ShipmentChoices ==
  {Null, EmptyObj, Obj(Origin), Obj(Destination), Obj(Origin @@ Destination),
   Obj(EmptyOrigin @@ Destination)}

\* the statuses of the events of a document, latest first
EventStatuses == <<"Delivered", "Out For Delivery", "In Transit">>
EventStatus(k) == IF k <= Len(EventStatuses) THEN EventStatuses[k] ELSE "Label Created"
\* the locations an event of a document can carry: none, an address, a description,
\* an address whose city is a list
EventLocations ==
  {EmptyObj, Obj([address |-> Address("Toronto", "ON", "CA")]),
   Obj([locationTypeDescription |-> Str("Hub")]), ListCity}
\* the event lists of a document: one to MaxEvents events
MaxEvents == 3
EventLists ==
  UNION { { [k \in 1..n |-> Activity(EventStatus(k), locs[k])] :
              locs \in [1..n -> EventLocations] } : n \in 1..MaxEvents }
\* a tracking document with the event list acts and the shipment-level fields extra
Document(acts, extra) == Shipment([package |-> Package(acts)] @@ extra)

\* the calls of the payload reduction: the arguments, before the call
ProbeInputs ==
  { [fn |-> "extract_location", activity |-> a, shipment |-> sh, done |-> FALSE,
     out |-> Ok(Null)] : a \in ActivityChoices, sh \in ShipmentChoices }
  \cup
  { [fn |-> "get_tracking_status", events |-> acts, extra |-> x,
     data |-> Document(acts, x), done |-> FALSE, out |-> Ok(Null)] :
       acts \in EventLists, x \in {<< >>, Destination} }

InitReduce == InitWith({NoFile}) /\ probe \in ProbeInputs

\* extract_location(activity, shipment) is called
CallExtractLocation ==
  /\ probe.fn = "extract_location" /\ ~probe.done
  /\ probe' = [probe EXCEPT !.done = TRUE,
                            !.out = extract_location(probe.activity, probe.shipment)]
  /\ UNCHANGED <<pc, caller, last_status, file, idx, now, passes, saved, inbox,
                 confirmed, batch, last_update_id, current, lastObs, notified, returned,
                 interrupted, received, handed, ev>>

\* get_tracking_status reduces the document of a successful response
CallGetTrackingStatus ==
  /\ probe.fn = "get_tracking_status" /\ ~probe.done
  /\ probe' = [probe EXCEPT !.done = TRUE, !.out = get_tracking_status(probe.data)]
  /\ UNCHANGED <<pc, caller, last_status, file, idx, now, passes, saved, inbox,
                 confirmed, batch, last_update_id, current, lastObs, notified, returned,
                 interrupted, received, handed, ev>>

NextReduce ==
  \/ CallExtractLocation
  \/ CallGetTrackingStatus

SpecReduce == InitReduce /\ [][NextReduce]_vars

(***************************************************************************)
(* Properties.                                                             *)
(***************************************************************************)
\* the step just taken fetched ev.id successfully and went through the comparison
Evaluated == ev.op = "evaluate" /\ ev.http = "ok"
\* the loop of run_tracking has moved past the shipment of the step just taken
MovedPast == pc = "loop" /\ idx >= 2 /\ TRACKING_NUMBERS[idx - 1] = ev.id
\* the pass in progress has just been aborted by an exception
PassAborted == ev.op \in {"token", "evaluate"} /\ ev.http = "error"
\* records of t in two mappings carry the same timestamp (or t has none in both)
SameTimestamp(m1, m2, t) ==
  /\ (t \in DOMAIN m1) = (t \in DOMAIN m2)
  /\ (t \in DOMAIN m1 /\ t \in DOMAIN m2) => m1[t].timestamp = m2[t].timestamp
\* str(e) of the exceptions the reduction of a payload can raise
ParseCauses ==
  { "'trackResponse'", "'shipment'", "'package'", "'activity'", "'status'", "'description'",
    "list index out of range", "string index out of range", "0",
    "list indices must be integers or slices, not str",
    "string indices must be integers, not 'str'",
    "'NoneType' object is not subscriptable",
    "'str' object has no attribute 'get'", "'list' object has no attribute 'get'",
    "'NoneType' object has no attribute 'get'",
    "sequence item 0: expected str instance, list found",
    "sequence item 0: expected str instance, dict found" }
\* payloads that have the trackResponse wrapper and are malformed
MalformedPayloads == {6, 7, 8, 10}

\* C1: when a pass fetches for a shipment the status string the previous pass fetched
\* for it, the pass dispatches no notification for the shipment and leaves the
\* timestamp of its record as it was.
C1_UnchangedStatusIsSilent ==
  [][\A t \in Ids :
       (/\ ev'.op = "evaluate" /\ ev'.http = "ok" /\ ev'.id = t
        /\ lastObs[t].pass > 0 /\ lastObs[t].pass + 1 = passes'
        /\ lastObs[t].status = ev'.status)
       => (ev'.sends = 0 /\ SameTimestamp(Store, last_status', t))]_vars

\* C2: an iteration dispatches a notification exactly when the fetched status is
\* non-empty (neither the empty string nor null) and differs, as a plain string, from
\* the status of the stored record; a shipment with no record differs from every status.
C2_NotifyIffStatusDiffers ==
  [][(ev'.op = "evaluate" /\ ev'.http = "ok")
       => ((ev'.sends > 0) <=>
             (/\ Truthy(ev'.status)
              /\ \/ ev'.id \notin DOMAIN last_status
                 \/ last_status[ev'.id].status # ev'.status))]_vars
\* a notification for a status that differs from the stored one in capitalisation only
C2_Witness ==
  /\ Evaluated /\ ev.sends > 0
  /\ ev.prev.has /\ ev.prev.status = Str("In Transit") /\ ev.status = Str("IN TRANSIT")

\* C3 as stated: whenever a pass observes a shipment that has no record, it dispatches
\* a notification and creates the record.
C3_FirstObservationNotifies ==
  [][(ev'.op = "evaluate" /\ ev'.http = "ok" /\ ev'.id \notin DOMAIN last_status)
       => (ev'.sends > 0 /\ ev'.id \in DOMAIN last_status')]_vars
\* C3, amended: whenever a pass observes a non-empty status for a shipment that has no
\* record, it dispatches a notification and creates the record with that status; an
\* empty status (the empty string, or null) does neither.
C3_FirstNonEmptyObservationNotifies ==
  [][(ev'.op = "evaluate" /\ ev'.http = "ok" /\ ev'.id \notin DOMAIN last_status)
       => IF Truthy(ev'.status)
          THEN /\ ev'.sends > 0
               /\ ev'.id \in DOMAIN last_status'
               /\ last_status'[ev'.id].status = ev'.status
          ELSE ev'.sends = 0 /\ ev'.id \notin DOMAIN last_status']_vars
\* a shipment without record has just been notified and recorded
C3_Witness ==
  /\ Evaluated /\ ~ev.prev.has /\ ev.sends > 0
  /\ ev.id \in DOMAIN last_status /\ last_status[ev.id].status = ev.status

\* C4: no notification is dispatched for a status of a shipment when the last fetch of
\* the shipment returned the same status and that status has been notified already,
\* whatever aborted passes and restarts lie in between.
C4_AtMostOncePerChange ==
  [][\A t \in Ids :
       (/\ ev'.op = "evaluate" /\ ev'.http = "ok" /\ ev'.id = t
        /\ lastObs[t].pass > 0 /\ lastObs[t].status = ev'.status
        /\ lastObs[t].notified)
       => ev'.sends = 0]_vars

\* C5: the identifiers that have a record in the state store are exactly those for
\* which a notification has been dispatched since the store was last empty.
C5_RecordIffNotified == DOMAIN Store = notified

\* C6: a failed tracking fetch of one shipment leaves the pass running: the loop moves
\* on to the next shipment.
C6_FetchFailureKeepsPass ==
  (ev.op = "evaluate" /\ ev.http = "error") => MovedPast

\* C7: a payload that has the wrapper and is malformed is reduced to the status
\* "Error parsing: <cause>" with the location "No location found", and the pass
\* goes on: the loop has moved to the next shipment, and after the last one the state
\* can be persisted.
C7_MalformedPayloadIsAStatus ==
  (Evaluated /\ ev.payload \in MalformedPayloads)
    => /\ \E cause \in ParseCauses : ev.status = Str("Error parsing: " \o cause)
       /\ ev.location = NoLocation
       /\ MovedPast
       /\ (idx > Len(TRACKING_NUMBERS) => ENABLED Persist)
\* a pass has persisted the state after a payload with an empty event list
C7_Witness ==
  /\ ev.op = "save"
  /\ \E t \in Ids : /\ lastObs[t].pass = passes
                    /\ lastObs[t].status = Str("Error parsing: list index out of range")
                    /\ t \in DOMAIN file.data
                    /\ file.data[t].location = NoLocation

\* send_telegram calls of one step of the model
SendCalls(op) == IF op = "finish" THEN 2 ELSE 1
\* C8: every send_telegram call makes one delivery attempt and returns, whatever the
\* outcome: after a failed delivery the process is alive, and the pass has moved on
\* to the next shipment.
C8_DeliveryFailureIsSwallowed ==
  (ev.delivery # "none")
    => /\ ev.sends = SendCalls(ev.op)
       /\ pc # "dead"
       /\ (ev.op = "evaluate" => MovedPast)
\* the delivery of a change notification has just failed with an exception
C8_Witness ==
  Evaluated /\ ev.delivery = "exception" /\ ev.sends = 1 /\ MovedPast

\* C9 as stated: every pass, however it ends, has written the state exactly once.
C9_PersistedOncePerPass ==
  (ev.op = "save" \/ PassAborted) => saved = 1
\* C9, amended: the file is written only by the step that ends a pass, after every
\* configured shipment has been evaluated in that pass; a pass that is not aborted
\* writes it exactly once, changed or not, and the file then equals the in-memory
\* mapping; an aborted pass does not write it.
C9_PersistedOnceByCompletedPass ==
  [][/\ (file' # file => ev'.op = "save")
     /\ (ev'.op = "save"
           => /\ saved' = 1
              /\ idx > Len(TRACKING_NUMBERS)
              /\ \A t \in Ids : lastObs[t].pass = passes
              /\ file'.exists /\ file'.data = last_status')
     /\ ((ev'.op \in {"token", "evaluate"} /\ ev'.http = "error")
           => saved' = 0 /\ file' = file)]_vars
\* a second pass in which no shipment changed has written the state
C9_Witness ==
  /\ ev.op = "save" /\ saved = 1 /\ passes = 2
  /\ \A t \in Ids : t \in DOMAIN last_status /\ last_status[t].timestamp < now
  /\ file.data = last_status

\* C10 as stated: when an update is about to be handed to handle_message, the cursor
\* has not been moved past it yet.
C10_CursorMovesAfterHandOff ==
  (pc = "handle") => last_update_id <= current.id
\* C10, amended: the cursor is moved past an update just before the update is handed
\* to handle_message, but the server is told only by the next get_updates call: an
\* update is confirmed only after its handle_message call has returned, and an
\* update whose handling was cut short stays unconfirmed and is in every reply
\* until then.
C10_ConfirmedOnlyAfterHandled ==
  /\ (pc = "handle" => last_update_id = current.id + 1)
  /\ \A i \in 1..Len(inbox) : i <= confirmed => i \in returned
  /\ \A i \in interrupted \ returned :
       /\ i > confirmed
       /\ (ev.op = "poll" /\ ev.http = "ok") => \E k \in 1..Len(batch) : batch[k].id = i
\* an update whose handling was cut short is about to be handled again
C10_Witness ==
  pc = "handle" /\ current.id \in interrupted

\* s is the beginning of t
IsPrefix(s, t) == Len(s) <= Len(t) /\ s = SubSeq(t, 1, Len(s))
\* every element of a sequence of identifiers is the one before it plus one
Consecutive(s) == \A k \in 1..(Len(s) - 1) : s[k + 1] = s[k] + 1

\* C11: within a process run the cursor never decreases, and after an update is taken
\* from the reply the cursor is that update's identifier plus one; the updates the run
\* received from get_updates carry consecutive increasing identifiers, the updates
\* passed to handle_message are a beginning of them (so none is passed twice and none is
\* skipped), and whenever the loop is back at polling every received update has been
\* passed to the handler.
C11_CursorMonotonicExactlyOnce ==
  [][/\ (pc # "dead" /\ pc' # "dead") => last_update_id' >= last_update_id
     /\ (ev'.op = "advance") => (current' = Head(batch) /\ last_update_id' = current'.id + 1)
     /\ (ev'.op = "handle") => handed' = Append(handed, current.id)
     /\ Consecutive(received')
     /\ IsPrefix(handed', received')
     /\ (pc' = "poll") => handed' = received']_vars
\* one process run has passed two updates to the handler, each once, and polls again
C11_Witness ==
  pc = "poll" /\ handed = <<1, 2>> /\ received = handed /\ last_update_id = 3

\* C12: in interactive mode no error ends the process: when the token request, a
\* tracking fetch or a delivery fails in a pass that a command triggered, the process
\* is still running after the step.
C12_InteractiveErrorsKeepLoop ==
  [][(/\ caller = "handler"
      /\ \/ ev'.http = "error"
         \/ ev'.delivery \in {"rejected", "exception"})
       => pc' # "dead"]_vars

\* C13: when the token request fails, the pass is over before any effect: the loop over
\* the shipments is not entered, no shipment is fetched, no notification is dispatched,
\* the state store holds the records it held, and the file is not written.
C13_AuthFailureAbortsBeforeEffects ==
  [][(ev'.op = "token" /\ ev'.http = "error")
       => /\ pc' # "loop"
          /\ lastObs' = lastObs
          /\ ev'.sends = 0
          /\ Store' = Store
          /\ file' = file /\ saved' = 0 /\ passes' = passes]_vars
\* the token request of a pass that a command triggered has failed, with records stored
C13_Witness ==
  /\ ev.op = "token" /\ ev.http = "error"
  /\ interrupted # {}
  /\ DOMAIN LoadState(file) = Ids

\* the two triggers, as the claim names them
ExactTrigger(u) ==
  <<u.kind, u.text>> \in {<<"message", "/update">>, <<"callback_query", "update_now">>}
\* what the messages of a step are, in the order they were sent
Kinds(msgs) == [k \in 1..Len(msgs) |-> msgs[k].kind]

\* C14: handle_message of a "/update" text message or of an "update_now" callback sends
\* the start announcement and starts a pass; the table and then the button are sent
\* right after that pass has evaluated every shipment and written the file, and only
\* then does the handling of the trigger return; handle_message of any other update
\* sends nothing, starts no pass, changes no record and returns.
C14_TriggerSequence ==
  [][/\ (ev'.op = "handle" /\ ExactTrigger(current))
          => /\ Kinds(ev'.msgs) = <<"announce">>
             /\ pc' = "token" /\ caller' = "handler" /\ current' = current
             /\ returned' = returned
     /\ (ev'.op = "handle" /\ ~ExactTrigger(current))
          => /\ ev'.msgs = << >> /\ ev'.sends = 0
             /\ pc' \in {"poll", "advance"} /\ caller' = "main"
             /\ passes' = passes /\ last_status' = last_status /\ file' = file
             /\ current.id \in returned'
     /\ (ev'.op = "finish")
          => /\ ExactTrigger(current)
             /\ ev.op = "save" /\ \A t \in Ids : lastObs[t].pass = passes
             /\ Kinds(ev'.msgs) = <<"table", "button">>
             /\ current.id \in returned'
     /\ (caller = "handler" /\ pc' \in {"poll", "advance"}) => ev'.op = "finish"]_vars
\* a button press has gone through the whole sequence, after a message that is no trigger
C14_Witness ==
  /\ ev.op = "finish" /\ ev.payload = 2 /\ returned = {1, 2}
  /\ inbox[1].kind = "message" /\ inbox[1].text = "hello"
  /\ inbox[2].kind = "callback_query" /\ inbox[2].text = "update_now"
  /\ file.data = last_status

\* the string at the end of a path of keys, "" when a key is missing or there is no object
TextAt(x, path) ==
  LET r == Walk(x, path) IN IF r.exc \/ r.val.t # "str" THEN "" ELSE r.val.v
\* the non-empty strings of a sequence, in order
NonEmpty(parts) == SelectSeq(parts, LAMBDA x : x # "")
\* texts separated by ", "
RECURSIVE Commas(_)
Commas(texts) ==
  IF texts = << >> THEN ""
  ELSE IF Len(texts) = 1 THEN texts[1]
  ELSE texts[1] \o ", " \o Commas(Tail(texts))
\* city, state/province and country under a path, the present ones joined with ", "
AddressAt(x, path) ==
  Commas(NonEmpty(<<TextAt(x, path \o <<"city">>), TextAt(x, path \o <<"stateProvince">>),
                  TextAt(x, path \o <<"country">>)>>))
\* the sources of a location in the order of the chain, each "" when it has nothing
LocationSources(activity, shipment) ==
  <<AddressAt(activity, <<"activityLocation", "address">>),
    TextAt(activity, <<"activityLocation", "locationTypeDescription">>),
    TextAt(activity, <<"activityLocation", "code">>),
    AddressAt(shipment, <<"shipFrom", "address">>),
    AddressAt(shipment, <<"shipTo", "address">>)>>
\* the first non-empty source of the chain, the sentinel when there is none
ChainLocation(activity, shipment) ==
  LET found == NonEmpty(LocationSources(activity, shipment))
  IN IF found = << >> THEN NoLocation ELSE Head(found)
\* the value at the end of a path of keys, None when a key is missing
ValueAt(x, path) == LET r == Walk(x, path) IN IF r.exc THEN Null ELSE r.val
\* the values among those at the keys under a path that are neither missing nor empty
Present(x, path, keys) ==
  SelectSeq([i \in 1..Len(keys) |-> ValueAt(x, path \o <<keys[i]>>)], Truthy)
\* what each source of the chain holds, as values of any type
SourceValues(activity, shipment) ==
  <<Present(activity, <<"activityLocation", "address">>, AddressKeys),
    Present(activity, <<"activityLocation">>, <<"locationTypeDescription">>),
    Present(activity, <<"activityLocation">>, <<"code">>),
    Present(shipment, <<"shipFrom", "address">>, AddressKeys),
    Present(shipment, <<"shipTo", "address">>, AddressKeys)>>
\* the first source of the chain that holds something has a field that is not a string
Mistyped(activity, shipment) ==
  LET found == SelectSeq(SourceValues(activity, shipment), LAMBDA src : src # << >>)
  IN found # << >> /\ \E i \in 1..Len(Head(found)) : Head(found)[i].t # "str"

\* C15: extract_location returns the first non-empty source of the chain event address
\* (present fields of city, state/province, country joined with ", "), facility
\* description, location code, shipment origin address, shipment destination address,
\* and the sentinel "No location found" when every source is empty. A later source is
\* not looked at: a field of it that is not a string changes nothing. (When the first
\* source that holds something has a field that is not a string, the join raises and
\* nothing is returned.)
C15_FallbackChain ==
  (probe.fn = "extract_location" /\ probe.done)
    => IF Mistyped(probe.activity, probe.shipment)
       THEN probe.out.exc
       ELSE probe.out = Ok(Str(ChainLocation(probe.activity, probe.shipment)))
\* the origin address was returned for an event without any location of its own,
\* although a destination address was there too
C15_Witness ==
  /\ probe.fn = "extract_location" /\ probe.done
  /\ LocationSources(probe.activity, probe.shipment) =
       <<"", "", "", "Louisville, KY, US", "Ottawa, CA">>
  /\ probe.out = Ok(Str("Louisville, KY, US"))

\* the shipment object of a document
ShipmentOf(data) == data.v["trackResponse"].v["shipment"].v[1]
\* the results of the chain for the events of a list, in the order of the list
ChainLocations(events, shipment) ==
  [k \in 1..Len(events) |-> ChainLocation(events[k], shipment)]
\* the results that are not the sentinel, in order
Found(locations) == SelectSeq(locations, LAMBDA x : x # NoLocation)
\* the first result unless it is the sentinel, then the first of the remaining results
\* that is not the sentinel, and the sentinel when there is none
ResolvedLocation(locations) ==
  IF locations[1] # NoLocation THEN locations[1]
  ELSE IF Found(Tail(locations)) = << >> THEN NoLocation
  ELSE Head(Found(Tail(locations)))
\* the events of a list on which the extractor raises
Failing(events, shipment) == {k \in 1..Len(events) : Mistyped(events[k], shipment)}
\* the events of a list the reduction calls the extractor on: the first, and each
\* later one as long as every result before it was the sentinel
Consulted(events, shipment) ==
  {k \in 1..Len(events) :
     \A j \in 1..(k - 1) : /\ j \notin Failing(events, shipment)
                           /\ ChainLocation(events[j], shipment) = NoLocation}

\* C16: get_tracking_status takes the status from the first event of the list; the
\* location is the extractor's result for the first event unless that is the sentinel,
\* and then the first result that is not the sentinel among the remaining events in
\* their given order, or the sentinel when there is none. (When the extractor raises on
\* one of the events it is called on, the document is malformed, and the result is the
\* parse error status of C7.)
C16_StatusAndLocationResolution ==
  (probe.fn = "get_tracking_status" /\ probe.done)
    => /\ ~probe.out.exc
       /\ (Consulted(probe.events, ShipmentOf(probe.data))
              \cap Failing(probe.events, ShipmentOf(probe.data)) # {})
            => /\ probe.out.val.status.t = "str"
               /\ IsPrefix("Error parsing: ", probe.out.val.status.v)
               /\ probe.out.val.location = NoLocation
       /\ (Consulted(probe.events, ShipmentOf(probe.data))
              \cap Failing(probe.events, ShipmentOf(probe.data)) = {})
            => /\ probe.out.val.status =
                    Str(TextAt(probe.events[1], <<"status", "description">>))
               /\ probe.out.val.location =
                    ResolvedLocation(ChainLocations(probe.events, ShipmentOf(probe.data)))
\* the latest event has no location, and of the two older events that have one the
\* location of the first was returned, with the status of the latest
C16_Witness ==
  /\ probe.fn = "get_tracking_status" /\ probe.done
  /\ ChainLocations(probe.events, ShipmentOf(probe.data)) =
       <<NoLocation, "Toronto, ON, CA", "Hub">>
  /\ probe.out = Ok(Snapshot(Str("Delivered"), "Toronto, ON, CA"))

\* the line of the table for a shipment and the three cells after its nickname
TableLine(i, status, location, updated) ==
  RenderRow(<<IF i = 1 THEN "Laptop" ELSE TRACKING_NUMBERS[i], status, location, updated>>)

\* C17: the table a handler sends has, between the two rules, exactly one line per
\* configured shipment in the order of the configured list; the line of a shipment with
\* a record shows its stored status, location and timestamp, the line of a shipment
\* without record the placeholders, and records of other identifiers give no line.
C17_TableRowPerShipment ==
  (ev.op = "finish")
    => ev.table =
         JoinLines(<<Title, Header, Rule>>
           \o [i \in 1..Len(TRACKING_NUMBERS) |->
                 IF TRACKING_NUMBERS[i] \in DOMAIN last_status
                 THEN TableLine(i, last_status[TRACKING_NUMBERS[i]].status.v,
                                last_status[TRACKING_NUMBERS[i]].location,
                                ToString(last_status[TRACKING_NUMBERS[i]].timestamp))
                 ELSE TableLine(i, "No info", Dash, Dash)]
           \o <<Rule>>)
\* a table was sent while the first shipment had no record, the second had one, and the
\* store held the record of an identifier that is not configured
C17_Witness ==
  /\ ev.op = "finish"
  /\ DOMAIN last_status = {"1Z002", StaleId}
  /\ ev.table = format_status_table(last_status).val

\* the record of k is the same in two mappings, or missing in both
SameRecord(m1, m2, k) ==
  /\ (k \in DOMAIN m1) = (k \in DOMAIN m2)
  /\ (k \in DOMAIN m1) => m1[k] = m2[k]

\* C18: an iteration of a pass changes at most the record of its own shipment, and that
\* only when it dispatched a notification: the record then holds the fetched status and
\* location and the timestamp of the pass; otherwise (empty status, or the stored
\* status again, whatever the fetched location) the record is left as it was. Every
\* other record, configured or not, is kept, each shipment is evaluated at most once in
\* a pass, no other step of the running process changes a record, and the write of the
\* file stores the whole mapping and removes no record from the file.
C18_OnlyNotifiedRecordsChange ==
  [][/\ (ev'.op = "evaluate" /\ ev'.http = "ok")
          => /\ \A k \in (DOMAIN last_status \cup DOMAIN last_status') \ {ev'.id} :
                  SameRecord(last_status, last_status', k)
             /\ lastObs[ev'.id].pass < passes
             /\ IF ev'.sends > 0
                THEN /\ ev'.id \in DOMAIN last_status'
                     /\ last_status'[ev'.id] =
                          [status |-> ev'.status, location |-> ev'.location,
                           timestamp |-> now]
                ELSE SameRecord(last_status, last_status', ev'.id)
     /\ (pc # "dead" /\ pc' # "dead" /\ ~(ev'.op = "evaluate" /\ ev'.http = "ok"))
          => last_status' = last_status
     /\ (ev'.op = "save")
          => /\ file'.data = last_status
             /\ \A k \in DOMAIN file.data : SameRecord(file.data, file'.data, k) \/ k \in Ids
             /\ DOMAIN file.data \subseteq DOMAIN file'.data]_vars
\* the stored status was fetched again with another location: nothing was sent, the
\* record kept its location, and the record of an identifier that is not configured
\* is still there
C18_Witness ==
  /\ Evaluated /\ ev.sends = 0
  /\ ev.prev.has /\ ev.prev.status = ev.status
  /\ last_status[ev.id].location # ev.location
  /\ last_status[ev.id].timestamp < now
  /\ StaleId \in DOMAIN last_status

\* C19: when the delivery of a change notification fails, the one attempt is not
\* repeated and the same iteration still sets the record of the shipment to the new
\* status and location with the timestamp of the pass, and the pass goes on; and an
\* iteration that fetches the status the record holds attempts no notification,
\* however the record came to hold it.
C19_FailedDeliveryStillRecords ==
  [][/\ (/\ ev'.op = "evaluate" /\ ev'.http = "ok"
         /\ ev'.delivery \in {"rejected", "exception"})
          => /\ ev'.sends = 1
             /\ ev'.id \in DOMAIN last_status'
             /\ last_status'[ev'.id] =
                  [status |-> ev'.status, location |-> ev'.location, timestamp |-> now]
             /\ pc' = "loop" /\ idx' = idx + 1
     /\ (/\ ev'.op = "evaluate" /\ ev'.http = "ok"
         /\ ev'.id \in DOMAIN last_status
         /\ last_status[ev'.id].status = ev'.status)
          => ev'.sends = 0 /\ ev'.msgs = << >> /\ ev'.delivery = "none"]_vars
\* the delivery of the notification of a changed status has just been rejected, and
\* the record holds the new status with the timestamp of this pass
C19_Witness ==
  /\ Evaluated /\ ev.delivery = "rejected"
  /\ ev.prev.has /\ ev.prev.status # ev.status
  /\ last_status[ev.id].status = ev.status
  /\ last_status[ev.id].location = ev.location
  /\ last_status[ev.id].timestamp = now /\ now = 2

\* C20: every message of every step is addressed to the configured chat; a trigger
\* starts a pass from whatever chat it came, and what handle_message sends for an update
\* (the announcement, then the table and the button) is the same for every chat the
\* update can carry.
C20_OutboundOnlyToConfiguredChat ==
  [][/\ \A k \in 1..Len(ev'.msgs) : ev'.msgs[k].chat = "owner"
     /\ (ev'.op = "handle")
          => /\ current.chat \in Chats
             /\ (pc' = "token") = ExactTrigger(current)
             /\ ev'.msgs = IF ExactTrigger(current)
                           THEN <<[kind |-> "announce", chat |-> "owner"]>> ELSE << >>
     /\ (ev'.op = "finish")
          => ev'.msgs = <<[kind |-> "table", chat |-> "owner"],
                          [kind |-> "button", chat |-> "owner"]>>]_vars
\* a trigger that came from another chat has run a pass to its end, a record carries the
\* timestamp of that pass, and the table and the button went to the configured chat
C20_Witness ==
  /\ ev.op = "finish"
  /\ inbox[ev.payload].chat = "stranger"
  /\ \E t \in Ids : t \in DOMAIN last_status /\ last_status[t].timestamp = now
  /\ \A k \in 1..Len(ev.msgs) : ev.msgs[k].chat = TELEGRAM_CHAT_ID

====
